---------------------------- MODULE Spec2Model ----------------------------
(* Model of src/build_embeddings.py: EmbeddingBuilder.run() keeping an     *)
(* output tree of JSON artifacts synchronized with a source tree of '*.md' *)
(* documents.                                                              *)
(*                                                                         *)
(* A file name is the sequence of its dot-separated segments               *)
(*   "x.md"   = <<"x", "md">>      ".md"    = <<"", "md">>                 *)
(*   ".md.md" = <<"", "md", "md">> "a"      = <<"a">>                      *)
(* a path is the sequence of its names, relative to docs_dir (documents)   *)
(* or to embeddings_dir (artifacts); <<>> is the root itself.              *)
(* A file's content is a sequence of byte tokens.                          *)
EXTENDS Naturals, Sequences, FiniteSets, TLC

-----------------------------------------------------------------------------
(* Names and paths *)

DirA == <<"a">>
DirB == <<"b">>
NameDotMd == <<"", "md">>
NameDotMdMd == <<"", "md", "md">>
NameXMd == <<"x", "md">>
NameNotes == <<"n", "txt">>

\* The documents the environment may create under docs_dir.
DocPaths == { <<NameDotMd>>, <<NameDotMdMd>>, <<DirA, DirB, NameXMd>> }

\* A file of another kind that may be put into the output tree.
NotePath == <<DirA, NameNotes>>

Last(s) == s[Len(s)]
Front(s) == SubSeq(s, 1, Len(s) - 1)

\* pathlib: PurePath.parent
Parent(p) == Front(p)

\* pathlib: PurePath.stem (Python 3.11): i = name.rfind('.'); the name up to
\* i when 0 < i < len(name) - 1, the whole name otherwise.
Stem(n) ==
    IF Len(n) >= 2 /\ Last(n) # "" /\ (Len(n) > 2 \/ n[1] # "")
    THEN Front(n)
    ELSE n

\* f"{stem}.json"
JsonName(stem) == Append(stem, "json")

\* fnmatch of a name against '*.<ext>'
MatchesGlob(n, ext) == Len(n) >= 2 /\ Last(n) = ext

\* get_embedding_path, relative to embeddings_dir
get_embedding_path(md) == Append(Parent(md), JsonName(Stem(Last(md))))

\* the key find_orphaned_embeddings computes for a document (line 130)
OrphanKey(md) == Append(Parent(md), JsonName(Stem(Last(md))))

\* proper ancestors of a path below the root, nearest first is Parent(p)
Ancestors(p) == { SubSeq(p, 1, k) : k \in 1..(Len(p) - 1) }

-----------------------------------------------------------------------------
(* Contents *)

\* Two document contents: Content1 has an ASCII first line, Content2 a first
\* line holding one two-byte UTF-8 character.
Content1 == <<"t", "nl", "w">>
Content2 == <<"u1", "u2">>
Contents == {Content1, Content2}

ModelName == "m"

\* calculate_shasum: SHA-256 of the bytes, injective on the contents used.
calculate_shasum(c) == IF c = Content1 THEN "h1" ELSE "h2"

RECURSIVE FirstLine(_)
FirstLine(c) ==
    IF c = <<>> \/ Head(c) = "nl" THEN <<>>
    ELSE <<Head(c)>> \o FirstLine(Tail(c))

\* get_headline: the first line, read as text
get_headline(c) == FirstLine(c)

\* generate_embedding: an opaque deterministic function of the text
generate_embedding(c) == IF c = Content1 THEN "v1" ELSE "v2"

Hashes == {"h1", "h2"}
Vectors == {"v1", "v2"}
TextBytes == {"t", "w", "u1", "u2"}

\* OutputData with the vector computed from the headline instead of the
\* whole content.
OutputDataOfHeadline(c) ==
    [embeddings |-> <<ModelName, generate_embedding(get_headline(c))>>,
     shasum |-> calculate_shasum(c),
     headline |-> get_headline(c)]

\* output_data of process_markdown_file (lines 106-112)
OutputData(c) ==
    [embeddings |-> <<ModelName, generate_embedding(c)>>,
     shasum |-> calculate_shasum(c),
     headline |-> get_headline(c)]

\* json.dump(output_data, f, ensure_ascii=False): the bytes written, in key
\* order; the headline's characters are written as they are.
JsonDump(d) ==
    <<"{", "emb", d.embeddings[1], d.embeddings[2], "sha", d.shasum, "head">>
        \o d.headline \o <<"}">>

\* The UTF-8 text layer of open(..., "r", encoding="utf-8"): a lead byte
\* must be followed by its continuation byte.
RECURSIVE Decodable(_)
Decodable(b) ==
    IF b = <<>> THEN TRUE
    ELSE IF Head(b) = "u1"
         THEN Len(b) >= 2 /\ b[2] = "u2" /\ Decodable(Tail(Tail(b)))
         ELSE Head(b) # "u2" /\ Decodable(Tail(b))

NoShasum == "none"

\* The members of a JSON object, parsed left to right: the shasum found
\* ("none" when the key is absent), or "error" when the text is not a
\* sequence of members.
RECURSIVE ParseMembers(_, _)
ParseMembers(b, sha) ==
    IF b = <<>> THEN sha
    ELSE IF Head(b) = "emb"
         THEN IF Len(b) >= 3 /\ b[3] \in Vectors
              THEN ParseMembers(SubSeq(b, 4, Len(b)), sha)
              ELSE "error"
    ELSE IF Head(b) = "sha"
         THEN IF Len(b) >= 2 /\ b[2] \in Hashes
              THEN ParseMembers(SubSeq(b, 3, Len(b)), b[2])
              ELSE "error"
    ELSE IF Head(b) = "head"
         THEN LET rest == Tail(b)
                  n == IF \E k \in 1..Len(rest) : rest[k] \notin TextBytes
                       THEN (CHOOSE k \in 1..Len(rest) :
                                /\ rest[k] \notin TextBytes
                                /\ \A j \in 1..(k - 1) : rest[j] \in TextBytes) - 1
                       ELSE Len(rest)
              IN ParseMembers(SubSeq(rest, n + 1, Len(rest)), sha)
    ELSE "error"

\* open + json.load of an artifact: what should_process_file gets back.
\*   kind "dict"    a JSON object, with its shasum member or "none"
\*   kind "other"   valid JSON that is no object (a list, a number, null)
\*   kind "JSONDecodeError", "UnicodeDecodeError": the exception raised
JsonLoad(b) ==
    IF ~Decodable(b) THEN [kind |-> "UnicodeDecodeError", shasum |-> NoShasum]
    ELSE IF b = <<"[", "]">> \/ b = <<"3">>
         THEN [kind |-> "other", shasum |-> NoShasum]
    ELSE IF Len(b) >= 2 /\ Head(b) = "{" /\ Last(b) = "}"
            /\ ParseMembers(SubSeq(b, 2, Len(b) - 1), NoShasum) # "error"
         THEN [kind |-> "dict",
               shasum |-> ParseMembers(SubSeq(b, 2, Len(b) - 1), NoShasum)]
    ELSE [kind |-> "JSONDecodeError", shasum |-> NoShasum]

-----------------------------------------------------------------------------
(* The two trees *)

EmptyMap == [x \in {} |-> <<>>]
Put(f, k, v) == [x \in DOMAIN f \cup {k} |-> IF x = k THEN v ELSE f[x]]
Drop(f, k) == [x \in DOMAIN f \ {k} |-> f[x]]

Root == <<>>

VARIABLES
    docsExists,      \* docs_dir exists
    docs,            \* the files under docs_dir: relative path -> content
    efiles,          \* the files under embeddings_dir: relative path -> bytes
    edirs,           \* the directories of the output tree, Root for embeddings_dir
    pc,              \* where run() is, or how the last run ended
    md_files,        \* run(): the documents discovered (line 171)
    processed,       \* documents of md_files already processed in this run
    skipped,         \* documents of md_files already skipped in this run
    processed_count, \* run(): line 175
    skipped_count,   \* run(): line 176
    orphaned,        \* delete_orphaned_embeddings: the orphans still to delete
    writes,          \* history: artifact paths written in this run
    nwrites,         \* history: number of artifact writes in this run
    embed_calls,     \* history: document -> calls of generate_embedding in this run
    deletes,         \* history: files unlinked in this run
    rmdirs,          \* history: directories removed in this run
    rmdirFailed,     \* history: an rmdir raised OSError in this run
    failure,         \* history: the exception that ended this run, or "none"
    cleanStart,      \* history: this run started right after a completed run
    lastDocs         \* history: the source tree of the last completed run

vars == <<docsExists, docs, efiles, edirs, pc, md_files, processed, skipped,
          processed_count, skipped_count, orphaned, writes, nwrites, deletes,
          rmdirs, rmdirFailed, failure, cleanStart, lastDocs, embed_calls>>


\* No process is running: before the first run or after a run has ended.
Stopped == {"idle", "done", "error", "crashed", "killed"}

NoDocs == [valid |-> FALSE, docs |-> EmptyMap]

Init ==
    /\ docsExists \in BOOLEAN
    /\ docs = EmptyMap
    /\ efiles = EmptyMap
    /\ edirs = {}
    /\ pc = "idle"
    /\ md_files = {}
    /\ processed = {}
    /\ skipped = {}
    /\ processed_count = 0
    /\ skipped_count = 0
    /\ orphaned = {}
    /\ writes = {}
    /\ nwrites = 0
    /\ embed_calls = EmptyMap
    /\ deletes = {}
    /\ rmdirs = {}
    /\ rmdirFailed = FALSE
    /\ failure = "none"
    /\ cleanStart = FALSE
    /\ lastDocs = NoDocs

\* Path.mkdir(parents=True, exist_ok=True)
MkdirParents(dirs, q) == dirs \cup {q} \cup Ancestors(q) \cup {Root}

\* any(parent.iterdir())
HasEntries(files, dirs, q) ==
    \/ \E f \in DOMAIN files : Parent(f) = q
    \/ \E d \in dirs : d # Root /\ Parent(d) = q

\* Path.rglob('*.md') over docs_dir
find_all_markdown_files == { p \in DOMAIN docs : MatchesGlob(Last(p), "md") }

\* should_process_file: "process" (True), "skip" (False) or "raise" (an
\* exception the except clause of line 88 does not catch).
should_process_file(content, ep) ==
    IF ep \notin DOMAIN efiles THEN "process"
    ELSE LET existing_data == JsonLoad(efiles[ep])
         IN CASE existing_data.kind = "JSONDecodeError" -> "process"
              [] existing_data.kind = "UnicodeDecodeError" -> "raise"
              [] existing_data.kind = "other" -> "raise"
              [] existing_data.kind = "dict" ->
                    IF existing_data.shasum # calculate_shasum(content)
                    THEN "process" ELSE "skip"

\* find_orphaned_embeddings scanning every file instead of '*.json'.
FindOrphansAnyFile(mds) ==
    LET md_relative_paths == { OrphanKey(md) : md \in mds }
    IN IF Root \in edirs
       THEN { e \in DOMAIN efiles : e \notin md_relative_paths }
       ELSE {}

\* find_orphaned_embeddings
find_orphaned_embeddings(mds) ==
    LET md_relative_paths == { OrphanKey(md) : md \in mds }
    IN IF Root \in edirs
       THEN { e \in DOMAIN efiles :
                MatchesGlob(Last(e), "json") /\ e \notin md_relative_paths }
       ELSE {}

\* PruneWalk without the test of line 152: rmdir on whatever directory the
\* walk stands in.
RECURSIVE PruneWalkAnyway(_, _, _, _)
PruneWalkAnyway(q, files, dirs, ok) ==
    IF q = Root THEN {}
    ELSE IF ok = 0 THEN {}
    ELSE {q} \cup PruneWalkAnyway(Parent(q), files, dirs \ {q}, ok - 1)

\* The while loop of delete_orphaned_embeddings (lines 149-158) from
\* directory q: the directories it removes when the first ok rmdir calls
\* succeed and the next one raises OSError.
RECURSIVE PruneWalk(_, _, _, _)
PruneWalk(q, files, dirs, ok) ==
    IF q = Root THEN {}
    ELSE IF HasEntries(files, dirs, q) THEN {}
    ELSE IF ok = 0 THEN {}
    ELSE {q} \cup PruneWalk(Parent(q), files, dirs \ {q}, ok - 1)

\* Whether that walk ended in the except clause.
RECURSIVE PruneRaised(_, _, _, _)
PruneRaised(q, files, dirs, ok) ==
    IF q = Root THEN FALSE
    ELSE IF HasEntries(files, dirs, q) THEN FALSE
    ELSE IF ok = 0 THEN TRUE
    ELSE PruneRaised(Parent(q), files, dirs \ {q}, ok - 1)

-----------------------------------------------------------------------------
(* The environment, between runs *)

\* What the last completed run saw, as known when the next thing happens.
CarryDocs ==
    IF pc = "done" THEN [valid |-> TRUE, docs |-> docs]
    ELSE IF pc = "idle" THEN lastDocs
    ELSE NoDocs

\* The run's own variables as they are when no run has left anything.
ResetRun ==
    /\ md_files' = {}
    /\ processed' = {}
    /\ skipped' = {}
    /\ processed_count' = 0
    /\ skipped_count' = 0
    /\ orphaned' = {}
    /\ writes' = {}
    /\ nwrites' = 0
    /\ embed_calls' = EmptyMap
    /\ deletes' = {}
    /\ rmdirs' = {}
    /\ rmdirFailed' = FALSE
    /\ failure' = "none"
    /\ cleanStart' = FALSE

\* A document is created, or its bytes are changed.
EditDoc(p, c) ==
    /\ pc \in Stopped
    /\ docsExists
    /\ IF p \in DOMAIN docs THEN docs[p] # c ELSE TRUE
    /\ docs' = Put(docs, p, c)
    /\ pc' = "idle"
    /\ lastDocs' = CarryDocs
    /\ ResetRun
    /\ UNCHANGED <<docsExists, efiles, edirs>>

\* A document is deleted.
RemoveDoc(p) ==
    /\ pc \in Stopped
    /\ p \in DOMAIN docs
    /\ docs' = Drop(docs, p)
    /\ pc' = "idle"
    /\ lastDocs' = CarryDocs
    /\ ResetRun
    /\ UNCHANGED <<docsExists, efiles, edirs>>

\* docs_dir is removed with all it holds, or created empty.
ToggleDocsDir ==
    /\ pc \in Stopped
    /\ docsExists' = ~docsExists
    /\ docs' = EmptyMap
    /\ pc' = "idle"
    /\ lastDocs' = CarryDocs
    /\ ResetRun
    /\ UNCHANGED <<efiles, edirs>>

\* Bytes an artifact file may be found to hold that no completed write
\* leaves: a JSON list, a JSON number, an object without shasum, text that
\* is not JSON, bytes that are not UTF-8, an object with a shasum and
\* nothing else.
Corruptions ==
    { <<"[", "]">>, <<"3">>, <<"{", "}">>, <<"x">>, <<"u1">>,
      <<"{", "sha", "h1", "}">> }

\* An artifact file's bytes are replaced.
CorruptArtifact(e, b) ==
    /\ pc \in Stopped
    /\ e \in DOMAIN efiles
    /\ MatchesGlob(Last(e), "json")
    /\ efiles[e] # b
    /\ efiles' = Put(efiles, e, b)
    /\ pc' = "idle"
    /\ lastDocs' = NoDocs
    /\ ResetRun
    /\ UNCHANGED <<docsExists, docs, edirs>>

\* A file that is no artifact is put into the output tree.
PlantNote ==
    /\ pc \in Stopped
    /\ Root \in edirs
    /\ NotePath \notin DOMAIN efiles
    /\ efiles' = Put(efiles, NotePath, <<"t">>)
    /\ edirs' = MkdirParents(edirs, Parent(NotePath))
    /\ pc' = "idle"
    /\ lastDocs' = NoDocs
    /\ ResetRun
    /\ UNCHANGED <<docsExists, docs>>

-----------------------------------------------------------------------------
(* run() *)

\* RunEntry with the output root created before the docs_dir test.
RunEntryMkdirFirst ==
    IF ~docsExists
    THEN /\ pc' = "error"
         /\ md_files' = {}
         /\ failure' = "none"
         /\ edirs' = MkdirParents(edirs, Root)
    ELSE \/ /\ edirs' = MkdirParents(edirs, Root)
            /\ md_files' = find_all_markdown_files
            /\ failure' = "none"
            /\ pc' = "loop"
         \/ /\ Root \notin edirs
            /\ md_files' = {}
            /\ failure' = "mkdir"
            /\ pc' = "crashed"
            /\ UNCHANGED edirs

\* RunEntry without the mkdir of line 167.
RunEntryNoMkdir ==
    IF ~docsExists
    THEN /\ pc' = "error"
         /\ md_files' = {}
         /\ failure' = "none"
         /\ UNCHANGED edirs
    ELSE /\ md_files' = find_all_markdown_files
         /\ failure' = "none"
         /\ pc' = "loop"
         /\ UNCHANGED edirs

\* Lines 162-172: the docs_dir test first, then the output root, then
\* discovery.
RunEntry ==
    IF ~docsExists
    THEN /\ pc' = "error"
         /\ md_files' = {}
         /\ failure' = "none"
         /\ UNCHANGED edirs
    ELSE \/ /\ edirs' = MkdirParents(edirs, Root)
            /\ md_files' = find_all_markdown_files
            /\ failure' = "none"
            /\ pc' = "loop"
         \/ /\ Root \notin edirs      \* mkdir raises OSError
            /\ md_files' = {}
            /\ failure' = "mkdir"
            /\ pc' = "crashed"
            /\ UNCHANGED edirs

\* run() from its call to the start of the loop (lines 160-176).
StartRun ==
    /\ pc \in Stopped
    /\ lastDocs' = CarryDocs
    /\ cleanStart' = (pc = "done")
    /\ processed' = {}
    /\ skipped' = {}
    /\ processed_count' = 0
    /\ skipped_count' = 0
    /\ orphaned' = {}
    /\ writes' = {}
    /\ nwrites' = 0
    /\ embed_calls' = EmptyMap
    /\ deletes' = {}
    /\ rmdirs' = {}
    /\ rmdirFailed' = FALSE
    /\ UNCHANGED <<docsExists, docs, efiles>>
    /\ RunEntry

Undecided == md_files \ (processed \cup skipped)

\* generate_embedding is called for document md (line 103).
RecordCall(calls, md) ==
    Put(calls, md, IF md \in DOMAIN calls THEN calls[md] + 1 ELSE 1)

\* process_markdown_file for document md, all I/O succeeding.
WriteArtifact(md) ==
    LET ep == get_embedding_path(md)
    IN /\ edirs' = MkdirParents(edirs, Parent(ep))
       /\ efiles' = Put(efiles, ep, JsonDump(OutputData(docs[md])))
       /\ writes' = writes \cup {ep}
       /\ nwrites' = nwrites + 1
       /\ embed_calls' = RecordCall(embed_calls, md)

\* DecideDoc with the artifact also written beside the document, under
\* docs_dir.
DecideDocBesideSource(md) ==
    /\ pc = "loop"
    /\ md \in Undecided
    /\ LET sp == should_process_file(docs[md], get_embedding_path(md))
       IN CASE sp = "process" ->
                 /\ WriteArtifact(md)
                 /\ processed' = processed \cup {md}
                 /\ processed_count' = processed_count + 1
                 /\ UNCHANGED <<pc, failure, skipped, skipped_count>>
            [] sp = "skip" ->
                 /\ skipped' = skipped \cup {md}
                 /\ skipped_count' = skipped_count + 1
                 /\ UNCHANGED <<pc, failure, efiles, edirs, writes, nwrites,
                                embed_calls,
                                processed, processed_count>>
            [] sp = "raise" ->
                 /\ pc' = "crashed"
                 /\ failure' = "artifact"
                 /\ UNCHANGED <<efiles, edirs, writes, nwrites, embed_calls,
                                processed,
                                processed_count, skipped, skipped_count>>
    /\ docs' = IF should_process_file(docs[md], get_embedding_path(md)) = "process"
               THEN Put(docs, get_embedding_path(md), JsonDump(OutputData(docs[md])))
               ELSE docs
    /\ UNCHANGED <<docsExists, md_files, orphaned, deletes, rmdirs,
                   rmdirFailed, cleanStart, lastDocs>>

\* DecideDoc counting a skipped document as processed.
DecideDocMiscount(md) ==
    /\ pc = "loop"
    /\ md \in Undecided
    /\ LET sp == should_process_file(docs[md], get_embedding_path(md))
       IN CASE sp = "process" ->
                 /\ WriteArtifact(md)
                 /\ processed' = processed \cup {md}
                 /\ processed_count' = processed_count + 1
                 /\ UNCHANGED <<pc, failure, skipped, skipped_count>>
            [] sp = "skip" ->
                 /\ skipped' = skipped \cup {md}
                 /\ processed_count' = processed_count + 1
                 /\ UNCHANGED <<pc, failure, efiles, edirs, writes, nwrites,
                                embed_calls,
                                processed, skipped_count>>
            [] sp = "raise" ->
                 /\ pc' = "crashed"
                 /\ failure' = "artifact"
                 /\ UNCHANGED <<efiles, edirs, writes, nwrites, embed_calls,
                                processed,
                                processed_count, skipped, skipped_count>>
    /\ UNCHANGED <<docsExists, docs, md_files, orphaned, deletes, rmdirs,
                   rmdirFailed, cleanStart, lastDocs>>

\* One iteration of the loop of lines 178-185, with no I/O failure.
DecideDoc(md) ==
    /\ pc = "loop"
    /\ md \in Undecided
    /\ LET sp == should_process_file(docs[md], get_embedding_path(md))
       IN CASE sp = "process" ->
                 /\ WriteArtifact(md)
                 /\ processed' = processed \cup {md}
                 /\ processed_count' = processed_count + 1
                 /\ UNCHANGED <<pc, failure, skipped, skipped_count>>
            [] sp = "skip" ->
                 /\ skipped' = skipped \cup {md}
                 /\ skipped_count' = skipped_count + 1
                 /\ UNCHANGED <<pc, failure, efiles, edirs, writes, nwrites,
                                embed_calls,
                                processed, processed_count>>
            [] sp = "raise" ->
                 /\ pc' = "crashed"
                 /\ failure' = "artifact"
                 /\ UNCHANGED <<efiles, edirs, writes, nwrites, embed_calls,
                                processed,
                                processed_count, skipped, skipped_count>>
    /\ UNCHANGED <<docsExists, docs, md_files, orphaned, deletes, rmdirs,
                   rmdirFailed, cleanStart, lastDocs>>

\* The iteration when mkdir (line 116) or open (line 119) raises OSError:
\* nothing in process_markdown_file or run() catches it.
DecideDocIOError(md) ==
    /\ pc = "loop"
    /\ md \in Undecided
    /\ should_process_file(docs[md], get_embedding_path(md)) = "process"
    /\ \/ /\ Parent(get_embedding_path(md)) \notin edirs
          /\ UNCHANGED edirs
       \/ edirs' = MkdirParents(edirs, Parent(get_embedding_path(md)))
    /\ pc' = "crashed"
    /\ failure' = "write"
    /\ embed_calls' = RecordCall(embed_calls, md)
    /\ UNCHANGED <<docsExists, docs, efiles, md_files, processed, skipped,
                   processed_count, skipped_count, orphaned, writes, nwrites,
                   deletes, rmdirs, rmdirFailed, cleanStart, lastDocs>>

\* The process is killed inside json.dump (line 120): the file was opened
\* and truncated, and holds the first n bytes of the text.
KillDuringWrite(md, n) ==
    /\ pc = "loop"
    /\ md \in Undecided
    /\ should_process_file(docs[md], get_embedding_path(md)) = "process"
    /\ n < Len(JsonDump(OutputData(docs[md])))
    /\ edirs' = MkdirParents(edirs, Parent(get_embedding_path(md)))
    /\ efiles' = Put(efiles, get_embedding_path(md),
                     SubSeq(JsonDump(OutputData(docs[md])), 1, n))
    /\ pc' = "killed"
    /\ embed_calls' = RecordCall(embed_calls, md)
    /\ UNCHANGED <<docsExists, docs, md_files, processed, skipped,
                   processed_count, skipped_count, orphaned, writes, nwrites,
                   deletes, rmdirs, rmdirFailed, failure, cleanStart, lastDocs>>

\* Reconcile without waiting for the loop of lines 178-185 to end.
ReconcileEarly ==
    /\ pc = "loop"
    /\ orphaned' = find_orphaned_embeddings(md_files)
    /\ pc' = IF orphaned' = {} THEN "done" ELSE "delete"
    /\ UNCHANGED <<embed_calls, docsExists, docs, efiles, edirs, md_files,
                   processed,
                   skipped, processed_count, skipped_count, writes, nwrites,
                   deletes, rmdirs, rmdirFailed, failure, cleanStart, lastDocs>>

\* Lines 187-196 up to the call of delete_orphaned_embeddings.
Reconcile ==
    /\ pc = "loop"
    /\ Undecided = {}
    /\ orphaned' = find_orphaned_embeddings(md_files)
    /\ pc' = IF orphaned' = {} THEN "done" ELSE "delete"
    /\ UNCHANGED <<embed_calls, docsExists, docs, efiles, edirs, md_files,
                   processed,
                   skipped, processed_count, skipped_count, writes, nwrites,
                   deletes, rmdirs, rmdirFailed, failure, cleanStart, lastDocs>>

\* One iteration of the loop of delete_orphaned_embeddings: unlink, then the
\* upward walk, of which the first ok rmdir calls succeed.
DeleteOrphan(e, ok) ==
    /\ pc = "delete"
    /\ e \in orphaned
    /\ LET files == Drop(efiles, e)
           gone == PruneWalk(Parent(e), files, edirs, ok)
       IN /\ efiles' = files
          /\ edirs' = edirs \ gone
          /\ rmdirs' = rmdirs \cup gone
          /\ rmdirFailed' = (rmdirFailed \/ PruneRaised(Parent(e), files, edirs, ok))
    /\ deletes' = deletes \cup {e}
    /\ orphaned' = orphaned \ {e}
    /\ pc' = IF orphaned' = {} THEN "done" ELSE "delete"
    /\ UNCHANGED <<embed_calls, docsExists, docs, md_files, processed, skipped,
                   processed_count, skipped_count, writes, nwrites, failure,
                   cleanStart, lastDocs>>

\* The iteration when unlink (line 146) raises OSError: it is outside the
\* try of lines 151-158.
DeleteOrphanIOError(e) ==
    /\ pc = "delete"
    /\ e \in orphaned
    /\ pc' = "crashed"
    /\ failure' = "unlink"
    /\ UNCHANGED <<embed_calls, docsExists, docs, efiles, edirs, md_files,
                   processed,
                   skipped, processed_count, skipped_count, orphaned, writes,
                   nwrites, deletes, rmdirs, rmdirFailed, cleanStart,
                   lastDocs>>

\* The deepest directory an artifact lies in, and the longest artifact text.
MaxDepth == Len(Parent(get_embedding_path(<<DirA, DirB, NameXMd>>)))
MaxDumpLen == Len(JsonDump(OutputData(Content2)))

Environment ==
    \/ \E p \in DocPaths, c \in Contents : EditDoc(p, c)
    \/ \E p \in DocPaths : RemoveDoc(p)
    \/ ToggleDocsDir
    \/ \E e \in DOMAIN efiles, b \in Corruptions : CorruptArtifact(e, b)
    \/ PlantNote

Run ==
    \/ StartRun
    \/ \E md \in md_files : DecideDoc(md)
    \/ \E md \in md_files : DecideDocIOError(md)
    \/ \E md \in md_files, n \in 0..MaxDumpLen : KillDuringWrite(md, n)
    \/ Reconcile
    \/ \E e \in orphaned, ok \in 0..MaxDepth : DeleteOrphan(e, ok)
    \/ \E e \in orphaned : DeleteOrphanIOError(e)

Next == Environment \/ Run

Spec == Init /\ [][Next]_vars

-----------------------------------------------------------------------------
(* Properties *)

\* The artifact at e is current for document md: it exists, parses to an
\* object, and its shasum is the fingerprint of md's bytes.
Current(e, md) ==
    /\ e \in DOMAIN efiles
    /\ JsonLoad(efiles[e]).kind = "dict"
    /\ JsonLoad(efiles[e]).shasum = calculate_shasum(docs[md])

\* No two of the documents share an artifact path.
NoCollision(mds) ==
    \A d1 \in mds, d2 \in mds :
        get_embedding_path(d1) = get_embedding_path(d2) => d1 = d2

\* The documents whose bytes differ from those the last completed run saw,
\* the output tree being as that run left it.
ChangedDocs ==
    IF lastDocs.valid
    THEN { d \in DOMAIN docs \cap DOMAIN lastDocs.docs : lastDocs.docs[d] # docs[d] }
    ELSE {}

\* The documents the last completed run saw that exist no more.
RemovedDocs ==
    IF lastDocs.valid THEN DOMAIN lastDocs.docs \ DOMAIN docs ELSE {}

\* C1 (idempotence): when a run completes that was started right after a
\* completed run, with nothing changed in between, it has written no
\* artifact, deleted nothing and skipped every discovered document (so every
\* artifact holds the bytes it held).
C1_Idempotent ==
    (pc = "done" /\ cleanStart) =>
        (nwrites = 0 /\ deletes = {} /\ rmdirs = {} /\ skipped = md_files)

\* C1 restricted to source trees in which no two documents share an artifact
\* path.
C1_IdempotentNoCollision ==
    (pc = "done" /\ cleanStart /\ NoCollision(md_files)) =>
        (nwrites = 0 /\ deletes = {} /\ rmdirs = {} /\ skipped = md_files)

\* A second run of two documents that skipped both.
C1_SecondRunSkipped ==
    pc = "done" /\ cleanStart /\ Cardinality(md_files) = 2 /\ skipped = md_files

\* C2 (change detection): when a run completes, every document whose bytes
\* were changed since the last completed run was processed in this run, not
\* skipped, and its artifact now stores the fingerprint of its new bytes.
C2_ChangeDetected ==
    pc = "done" =>
        \A d \in ChangedDocs :
            /\ d \in processed
            /\ d \notin skipped
            /\ Current(get_embedding_path(d), d)

\* C2 restricted to source trees in which no two documents, of this run or of
\* the last completed one, share an artifact path.
C2_ChangeDetectedNoCollision ==
    (pc = "done" /\ NoCollision(md_files \cup DOMAIN lastDocs.docs)) =>
        \A d \in ChangedDocs :
            /\ d \in processed
            /\ d \notin skipped
            /\ Current(get_embedding_path(d), d)

\* A completed run that processed every changed document.
C2_ChangedDocRegenerated ==
    pc = "done" /\ ChangedDocs # {} /\ ChangedDocs \subseteq processed

\* C3 (orphan cleanup): when a run completes in which no rmdir failed, the
\* artifact of every document that the last completed run saw and that
\* exists no more is gone, and every directory above it that still exists
\* has an entry.
C3_OrphanRemoved ==
    (pc = "done" /\ ~rmdirFailed) =>
        \A d \in RemovedDocs :
            /\ get_embedding_path(d) \notin DOMAIN efiles
            /\ \A q \in Ancestors(get_embedding_path(d)) :
                   q \in edirs => HasEntries(efiles, edirs, q)

\* C3 restricted to removed documents that share their artifact path with
\* no document of this run.
C3_OrphanRemovedNoCollision ==
    (pc = "done" /\ ~rmdirFailed) =>
        \A d \in RemovedDocs :
            (\A m \in md_files : get_embedding_path(m) # get_embedding_path(d)) =>
                /\ get_embedding_path(d) \notin DOMAIN efiles
                /\ \A q \in Ancestors(get_embedding_path(d)) :
                       q \in edirs => HasEntries(efiles, edirs, q)

\* A completed run that deleted the artifact of a removed document and both
\* directories above it.
C3_OrphanAndDirsGone ==
    /\ pc = "done"
    /\ <<DirA, DirB, NameXMd>> \in RemovedDocs
    /\ deletes = {get_embedding_path(<<DirA, DirB, NameXMd>>)}
    /\ rmdirs = {<<DirA, DirB>>, <<DirA>>}

\* C4 (safe cleanup): no step of a run removes a file at the artifact path
\* of a document discovered in that run, and no step of a run rewrites,
\* truncates or removes an artifact that is current for a discovered
\* document. SafeStep is that statement of one step.
SafeStep ==
    pc \in {"loop", "delete"} =>
        /\ \A d \in md_files :
              get_embedding_path(d) \in DOMAIN efiles =>
                  get_embedding_path(d) \in DOMAIN efiles'
        /\ \A d \in md_files :
              Current(get_embedding_path(d), d) =>
                  /\ efiles'[get_embedding_path(d)] = efiles[get_embedding_path(d)]
                  /\ \A m \in processed' \ processed :
                         get_embedding_path(m) # get_embedding_path(d)

C4_SafeCleanup == [][SafeStep]_vars

\* C4 restricted to runs in which no two discovered documents share an
\* artifact path.
C4_SafeCleanupNoCollision == [][NoCollision(md_files) => SafeStep]_vars

\* The bytes b are what a write of some artifact leaves when it is cut short.
IsPartial(b) ==
    \E c \in Contents :
        \E n \in 0..(Len(JsonDump(OutputData(c))) - 1) :
            b = SubSeq(JsonDump(OutputData(c)), 1, n)

\* The artifact file at e fails to load as an object with a shasum.
IsCorrupt(e) ==
    /\ e \in DOMAIN efiles
    /\ \/ JsonLoad(efiles[e]).kind # "dict"
       \/ JsonLoad(efiles[e]).shasum = NoShasum

\* C5 (corrupt artifacts): for every document still to be decided whose
\* artifact file is corrupt, the freshness check answers 'needs processing'
\* and does not raise; and no run ends by an exception of that check.
C5_CorruptReprocessed ==
    /\ pc = "loop" =>
          \A md \in Undecided :
              IsCorrupt(get_embedding_path(md)) =>
                  should_process_file(docs[md], get_embedding_path(md)) = "process"
    /\ failure # "artifact"

\* C5 for the failures the except clause of line 88 does catch: text that is
\* not JSON, and an object without shasum.
C5_CaughtCorruptReprocessed ==
    pc = "loop" =>
        \A md \in Undecided :
            (/\ IsCorrupt(get_embedding_path(md))
             /\ JsonLoad(efiles[get_embedding_path(md)]).kind
                    \in {"dict", "JSONDecodeError"}) =>
                should_process_file(docs[md], get_embedding_path(md)) = "process"

\* C6 (missing source root): a step that starts a run while docs_dir does
\* not exist ends the run at once with the error, and changes no file and
\* no directory of either tree: it creates no output root, discovers,
\* processes, writes and deletes nothing.
MissingRootStep ==
    (pc \in Stopped /\ pc' # "idle" /\ ~docsExists) =>
        /\ pc' = "error"
        /\ efiles' = efiles
        /\ edirs' = edirs
        /\ docs' = docs
        /\ docsExists' = docsExists
        /\ md_files' = {}
        /\ processed' = {}
        /\ skipped' = {}
        /\ nwrites' = 0
    /\ embed_calls' = EmptyMap
        /\ deletes' = {}
        /\ rmdirs' = {}

C6_MissingRootNoEffect == [][MissingRootStep]_vars

\* C6's case: a run ended with the error and there is no output root.
C6_ErrorWithoutOutputRoot ==
    pc = "error" /\ ~docsExists /\ Root \notin edirs

\* C7 (mapping injectivity): the documents discovered in a run have pairwise
\* different artifact paths, and for each of them the key of orphan
\* detection is the path of the freshness check.
C7_MappingInjective ==
    \A d1 \in md_files, d2 \in md_files :
        /\ d1 # d2 => get_embedding_path(d1) # get_embedding_path(d2)
        /\ OrphanKey(d1) = get_embedding_path(d1)

\* C7, second half alone.
C7_MappingsAgree ==
    \A d \in md_files : OrphanKey(d) = get_embedding_path(d)

\* C8 (per-document isolation): a failure of mkdir or open for one document
\* does not abort the run: when the run has ended, at most that one
\* discovered document is undecided.
C8_WriteFailureIsolated ==
    failure = "write" =>
        /\ pc # "crashed"
        /\ pc \in Stopped => Cardinality(Undecided) <= 1

\* C9 (orphan delete failures): no run ends by a failure to unlink an
\* orphan or to remove a directory.
C9_DeleteFailureNotFatal ==
    pc = "crashed" => failure \notin {"unlink", "rmdir"}

\* C9 for rmdir alone: the step in which an rmdir fails leaves the run in
\* the delete loop or completes it.
RmdirFailureStep ==
    (~rmdirFailed /\ rmdirFailed') => pc' \in {"delete", "done"}

C9_RmdirFailureRecovered == [][RmdirFailureStep]_vars

\* C10 (interrupted write): for every document still to be decided whose
\* artifact file is a cut-short write, the freshness check answers 'needs
\* processing': it neither accepts the file as current nor raises.
C10_PartialReprocessed ==
    pc = "loop" =>
        \A md \in Undecided :
            (/\ get_embedding_path(md) \in DOMAIN efiles
             /\ IsPartial(efiles[get_embedding_path(md)])) =>
                should_process_file(docs[md], get_embedding_path(md)) = "process"

\* C10, second half alone: a cut-short write is never accepted as current.
C10_PartialNeverCurrent ==
    pc = "loop" =>
        \A md \in Undecided :
            (/\ get_embedding_path(md) \in DOMAIN efiles
             /\ IsPartial(efiles[get_embedding_path(md)])) =>
                should_process_file(docs[md], get_embedding_path(md)) # "skip"

\* A step of run(): every step but the environment's, which ends in "idle".
RunStep == pc \notin Stopped \/ pc' # "idle"

\* C11 (source tree read-only): no step of a run creates, changes or deletes
\* a file under docs_dir, or docs_dir itself.
SourceUntouchedStep ==
    RunStep => (docs' = docs /\ docsExists' = docsExists)

C12_SkipDecision ==
    pc = "loop" =>
        \A md \in Undecided :
            should_process_file(docs[md], get_embedding_path(md)) =
                IF Current(get_embedding_path(md), md) THEN "skip" ELSE "process"

\* C12 without the cases in which the check raises: a step skips a document
\* only if its artifact is current, processes it only if it is not, and a
\* document whose artifact is current is never left to an exception.
SkipIffCurrentStep ==
    \A md \in md_files :
        /\ md \in skipped' \ skipped => Current(get_embedding_path(md), md)
        /\ md \in processed' \ processed => ~Current(get_embedding_path(md), md)

C12_SkipIffCurrent == [][SkipIffCurrentStep]_vars

\* C12, independence of the other fields: a document was skipped whose
\* artifact holds the right shasum and neither embeddings nor headline.
C12_SkippedOnShasumAlone ==
    \E md \in skipped : efiles[get_embedding_path(md)] = <<"{", "sha", "h1", "}">>

\* C13 (directory pruning on delete): a step removes a directory only below
\* the output root, only on the chain of parents of an orphan it has just
\* deleted, contiguously from the orphan's own directory upward, and only if
\* nothing is left in it; when no rmdir failed the walk leaves no empty
\* directory on that chain. The output root is never removed.
PruneStep ==
    /\ \A q \in edirs \ edirs' :
          /\ q # Root
          /\ ~HasEntries(efiles', edirs', q)
          /\ \E e \in deletes' \ deletes :
                /\ q \in Ancestors(e)
                /\ \A q2 \in Ancestors(e) : Len(q2) > Len(q) => q2 \notin edirs'
    /\ \A e \in deletes' \ deletes :
          /\ Cardinality(edirs \ edirs') <= Len(Parent(e))
          /\ ~rmdirFailed' =>
                \A q \in Ancestors(e) \cap edirs' : HasEntries(efiles', edirs', q)
    /\ Root \notin rmdirs'
    /\ (Root \in edirs /\ RunStep) => Root \in edirs'

C13_PruneOnlyEmpty == [][PruneStep]_vars

\* C13's case: the walk removed the orphan's own directory and stopped at
\* its parent, which still holds a file.
C13_WalkStoppedAtNonEmpty ==
    /\ pc = "done"
    /\ rmdirs = {<<DirA, DirB>>}
    /\ ~rmdirFailed
    /\ <<DirA>> \in edirs
    /\ NotePath \in DOMAIN efiles

\* C14 (ordering of the run): reconciliation and every delete come after the
\* last document was decided, no artifact is written once reconciliation has
\* started, and the orphan set is computed from the documents found by this
\* run and the output tree as processing left it.
OrderStep ==
    /\ (orphaned' \ orphaned # {} \/ deletes' \ deletes # {})
          => (Undecided = {} /\ Undecided' = {})
    /\ (efiles' # efiles /\ pc = "loop") => (orphaned = {} /\ deletes = {})
    /\ pc = "delete" => (writes' = writes /\ nwrites' = nwrites)
    /\ (pc = "loop" /\ pc' \in {"delete", "done"}) =>
          /\ md_files = { p \in DOMAIN docs : MatchesGlob(Last(p), "md") }
          /\ efiles' = efiles
          /\ orphaned' =
                { e \in DOMAIN efiles :
                    /\ MatchesGlob(Last(e), "json")
                    /\ \A md \in md_files : get_embedding_path(md) # e }

C14_ReconcileAfterDecisions == [][OrderStep]_vars

\* C14's case: reconciliation has started after a write of this run, and an
\* orphan it found belongs to a document the previous run still saw.
C14_DeletePhaseAfterWrite ==
    /\ pc = "delete"
    /\ nwrites > 0
    /\ lastDocs.valid
    /\ \E d \in DOMAIN lastDocs.docs :
          d \notin md_files /\ get_embedding_path(d) \in orphaned

\* C15 (one embedding call and one entry per processed document): in a run
\* every processed document has had exactly one embedding call and no
\* skipped document any; the step that processes a document leaves at its
\* artifact path one object whose only embeddings key is the model name,
\* holding the vector of the document's content, and whose shasum is the
\* document's fingerprint, whatever the file held before.
OneEntryStep ==
    /\ \A md \in processed' : md \in DOMAIN embed_calls' /\ embed_calls'[md] = 1
    /\ \A md \in skipped' : md \notin DOMAIN embed_calls'
    /\ \A md \in processed' \ processed :
          LET b == efiles'[get_embedding_path(md)]
          IN /\ get_embedding_path(md) \in writes'
             /\ Cardinality({ k \in 1..Len(b) : b[k] = "emb" }) = 1
             /\ SubSeq(b, 1, 4) = <<"{", "emb", ModelName, generate_embedding(docs[md])>>
             /\ SubSeq(b, 5, 6) = <<"sha", calculate_shasum(docs[md])>>
             /\ b[Len(b)] = "}"
             /\ JsonLoad(b) = [kind |-> "dict", shasum |-> calculate_shasum(docs[md])]

C15_OneCallOneEntry == [][OneEntryStep]_vars

\* C15's case: a run that has processed one document, over an artifact that
\* existed, and skipped another.
C15_ProcessedAndSkipped ==
    /\ processed # {}
    /\ skipped # {}
    /\ DOMAIN embed_calls = processed
    /\ \E md \in processed :
          /\ docs[md] = Content1
          /\ lastDocs.valid
          /\ md \in DOMAIN lastDocs.docs

\* When a run has completed, two documents with the same bytes have two
\* different artifacts, both current, neither deleted, and each document
\* that was processed had its own embedding call and left the same text.
SameContentPairsApart(mds) ==
    \A d1 \in mds, d2 \in mds :
        (d1 # d2 /\ docs[d1] = docs[d2]) =>
            /\ get_embedding_path(d1) # get_embedding_path(d2)
            /\ Current(get_embedding_path(d1), d1)
            /\ Current(get_embedding_path(d2), d2)
            /\ get_embedding_path(d1) \notin deletes
            /\ get_embedding_path(d2) \notin deletes
            /\ (d1 \in processed /\ d2 \in processed) =>
                  /\ embed_calls[d1] = 1
                  /\ embed_calls[d2] = 1
                  /\ efiles[get_embedding_path(d1)] = efiles[get_embedding_path(d2)]

\* C16 (no deduplication by content): after a completed run, two documents
\* at different paths with identical bytes have two distinct current
\* artifacts, each with its own embedding call and equal vectors, and
\* neither artifact was deleted as an orphan.
C16_NoDedupByContent ==
    pc = "done" => SameContentPairsApart(md_files)

\* C16 for documents of which no two share an artifact path.
C16_NoDedupNoCollision ==
    (pc = "done" /\ NoCollision(md_files)) => SameContentPairsApart(md_files)

\* C16's case without a shared path: both documents with the same bytes were
\* processed in one completed run.
C16_TwoProcessedSameContent ==
    /\ pc = "done"
    /\ NoCollision(md_files)
    /\ \E d1 \in processed, d2 \in processed : d1 # d2 /\ docs[d1] = docs[d2]

\* C17 (output root creation): the step that enters run() with an existing
\* docs_dir either leaves the output root existing, having added nothing
\* but the root and changed nothing if it was there, or ends in mkdir's
\* exception with nothing discovered; at that point nothing is decided,
\* written or deleted, and every later step of the run finds the root.
RootCreationStep ==
    /\ (pc \in Stopped /\ pc' # "idle" /\ docsExists) =>
          /\ efiles' = efiles
          /\ processed' \cup skipped' = {}
          /\ nwrites' = 0 /\ deletes' = {} /\ embed_calls' = EmptyMap
          /\ Root \in edirs => (edirs' = edirs /\ pc' = "loop")
          /\ Root \notin edirs =>
                \/ edirs' = edirs \cup {Root} /\ pc' = "loop"
                \/ /\ edirs' = edirs
                   /\ pc' = "crashed"
                   /\ failure' = "mkdir"
                   /\ md_files' = {}
    /\ pc \notin Stopped => (Root \in edirs /\ Root \in edirs')

C17_RootCreatedFirst == [][RootCreationStep]_vars

\* C17's case: a run has entered its loop with documents to decide, and the
\* output tree is the bare root.
C17_LoopOverBareRoot ==
    /\ pc = "loop"
    /\ edirs = {Root}
    /\ efiles = EmptyMap
    /\ md_files # {}
    /\ Undecided = md_files

\* The '*.json' files of the output tree are exactly the artifact paths of
\* the documents in mds, and each is current for its document.
Synchronized(mds) ==
    /\ { e \in DOMAIN efiles : MatchesGlob(Last(e), "json") }
          = { get_embedding_path(md) : md \in mds }
    /\ \A md \in mds : Current(get_embedding_path(md), md)

\* C18 (synchronized state after a completed run): when run() has completed
\* with an existing docs_dir, the '*.json' files of the output tree are
\* exactly the artifact paths of the documents it discovered, each parsing
\* with the shasum of its document.
C18_SynchronizedAfterRun ==
    pc = "done" => Synchronized(md_files)

\* C18 for documents of which no two share an artifact path.
C18_SynchronizedNoCollision ==
    (pc = "done" /\ NoCollision(md_files)) => Synchronized(md_files)

\* C18's case without a shared path: a completed run that wrote an artifact
\* and deleted an orphan, with a file that is no artifact in the tree.
C18_MixedRunCompleted ==
    /\ pc = "done"
    /\ NoCollision(md_files)
    /\ processed # {}
    /\ deletes # {}
    /\ NotePath \in DOMAIN efiles

\* C19 (count consistency): no document is decided twice, the two counters
\* add up to the number of documents decided so far, each counts its own
\* kind, and when the run has completed they add up to the number of
\* documents discovered, processed_count being the number of writes.
C19_CountsConsistent ==
    /\ processed \cap skipped = {}
    /\ processed \cup skipped \subseteq md_files
    /\ processed_count + skipped_count = Cardinality(processed \cup skipped)
    /\ processed_count = Cardinality(processed)
    /\ skipped_count = Cardinality(skipped)
    /\ processed_count = nwrites
    /\ pc \in {"delete", "done"} =>
          processed_count + skipped_count = Cardinality(md_files)

\* C19's case: a completed run that processed one document and skipped
\* another.
C19_BothCountersMoved ==
    /\ pc = "done"
    /\ processed_count > 0
    /\ skipped_count > 0
    /\ nwrites = processed_count

\* C20 (non-artifact entries are left alone): a step of run() keeps every
\* file whose name does not match '*.json', with its bytes, and every
\* directory above it; the orphans found and the files deleted all match
\* '*.json'.
NonArtifactStep ==
    /\ RunStep =>
          \A f \in DOMAIN efiles :
              ~MatchesGlob(Last(f), "json") =>
                  /\ f \in DOMAIN efiles'
                  /\ efiles'[f] = efiles[f]
                  /\ (Ancestors(f) \cup {Root}) \cap edirs \subseteq edirs'
    /\ \A e \in orphaned' \cup deletes' : MatchesGlob(Last(e), "json")
    /\ orphaned' \subseteq DOMAIN efiles'

C20_NonArtifactsUntouched == [][NonArtifactStep]_vars

\* C20's case: an orphan was deleted two levels below the directory that
\* holds a file which is no artifact, and that file is as it was.
C20_OrphanDeletedBesideNote ==
    /\ NotePath \in DOMAIN efiles
    /\ efiles[NotePath] = <<"t">>
    /\ \E e \in deletes : Parent(Parent(e)) = Parent(NotePath)

=============================================================================
